---- MODULE Spec2Model ----
(***************************************************************************)
(* A model of dicom-info: the file loader (utils.py, core.py), the         *)
(* metadata printer (core.py), the image classifier and the interactive    *)
(* viewer's grid and figure construction (viewer.py), and the command-line *)
(* entry point (cli.py).                                                   *)
(*                                                                         *)
(* Optional values (max_cols, SamplesPerPixel, NumberOfFrames, the         *)
(* pixel_array attribute, the exit code) are sequences of length at most   *)
(* one: <<>> is None / attribute absent, <<v>> is the value v.             *)
(***************************************************************************)
EXTENDS Integers, Sequences, FiniteSets, TLC

VARIABLES
  pc,          \* control position of the run
  call,        \* the function that was called (library runs), or "main"
  files,       \* the list of paths given
  max_cols,    \* display_images' max_cols argument (library runs)
  args,        \* the parsed command line: display, quiet, columns
  reads,       \* the paths handed to pydicom.dcmread, in call order
  stdout,      \* the lines written to standard output
  stderr,      \* the lines written to standard error by the argument parser
  log,         \* the logger.warning records emitted
  raised,      \* the exception propagating out of the last call, or "none"
  errmsg,      \* str() of that exception
  result,      \* the list a loader returned
  fig,         \* the matplotlib figure and the calls made on it
  exitCode,    \* the process exit status, <<>> while running
  dcm,         \* the classifier's dataset argument
  pixel_array, \* the classifier's array argument, as its shape
  image_type,  \* the classifier's result
  num_images,  \* the grid planner's image count
  plan         \* the grid planner's result

vars == <<pc, call, files, max_cols, args, reads, stdout, stderr, log, raised,
          errmsg, result, fig, exitCode, dcm, pixel_array, image_type,
          num_images, plan>>

(***************************************************************************)
(* Bounds of the model.                                                    *)
(***************************************************************************)
MaxFiles == 3     \* longest list of paths
MaxCols == 3      \* largest columns value given (the smallest is -1)
MaxRank == 4      \* highest array rank classified
MaxDim == 4       \* largest extent of one array dimension
MaxSpp == 4       \* largest SamplesPerPixel value
MaxImages == 10   \* largest image count planned
MaxHint == 6      \* largest columns hint planned

None == <<>>
Some(v) == <<v>>
Opt(S) == {None} \cup {Some(v) : v \in S}

Min(a, b) == IF a <= b THEN a ELSE b

\* All sequences over S of length lo..hi.
SeqsOf(S, lo, hi) == UNION {[1..n -> S] : n \in lo..hi}

(***************************************************************************)
(* The files on disk.  dcmread(p) succeeds with Disk[p].dcm when           *)
(* Disk[p].status = "ok", and raises the exception Disk[p].status names    *)
(* otherwise.                                                              *)
(***************************************************************************)
Dataset(uid, arr, spp, frames) ==
  [uid |-> uid, pixel_array |-> arr, SamplesPerPixel |-> spp, NumberOfFrames |-> frames]

NoDataset == Dataset("", None, None, None)

Paths ==
  {"missing.dcm", "invalid.dcm", "meta.dcm", "scans/gray.dcm", "rgb.dcm",
   "scans/vol.dcm", "cine.dcm", "bad4d.dcm"}

Disk ==
  [p \in Paths |->
    CASE p = "missing.dcm"    -> [status |-> "FileNotFoundError", dcm |-> NoDataset]
      [] p = "invalid.dcm"    -> [status |-> "InvalidDicomError", dcm |-> NoDataset]
      [] p = "meta.dcm"       -> [status |-> "ok", dcm |-> Dataset("meta", None, None, None)]
      [] p = "scans/gray.dcm" -> [status |-> "ok", dcm |-> Dataset("gray", Some(<<2, 2>>), Some(1), None)]
      [] p = "rgb.dcm"        -> [status |-> "ok", dcm |-> Dataset("rgb", Some(<<2, 2, 3>>), Some(3), None)]
      [] p = "scans/vol.dcm"  -> [status |-> "ok", dcm |-> Dataset("vol", Some(<<3, 2, 2>>), None, Some(2))]
      [] p = "cine.dcm"       -> [status |-> "ok", dcm |-> Dataset("cine", Some(<<2, 2, 2>>), Some(1), Some(2))]
      [] OTHER                -> [status |-> "ok", dcm |-> Dataset("bad4d", Some(<<2, 2, 2, 2>>), Some(1), None)]]

\* Path(filepath).name: the last component of the path.
PathName(p) ==
  CASE p = "scans/gray.dcm" -> "gray.dcm"
    [] p = "scans/vol.dcm"  -> "vol.dcm"
    [] OTHER                -> p

Readable(p) == Disk[p].status = "ok"
AllReadable(fs) == \A i \in 1..Len(fs) : Readable(fs[i])

\* str(shape) of a numpy shape tuple, as far as the log records need it.
RECURSIVE ShapeStr(_)
ShapeStr(shape) ==
  IF shape = <<>> THEN ""
  ELSE ToString(Head(shape)) \o "," \o ShapeStr(Tail(shape))

(***************************************************************************)
(* Image classifier: viewer.py, _get_image_type.  The result carries the   *)
(* category and the warnings the call logs.                                *)
(***************************************************************************)
\* getattr(dcm, "SamplesPerPixel", 1)
SamplesPerPixelOf(d) ==
  IF d.SamplesPerPixel = None THEN 1 ELSE d.SamplesPerPixel[1]

UnexpectedShapeWarning(shape, spp) ==
  "Unexpected shape " \o ShapeStr(shape) \o " for SamplesPerPixel=" \o ToString(spp)

FrameMismatchWarning(frames, lead) ==
  "NumberOfFrames (" \o ToString(frames) \o ") doesn't match pixel_array.shape[0] ("
    \o ToString(lead) \o ")"

\* A classifier that looks at the rank before it looks at the sample count.
RankFirst_get_image_type(d, shape) ==
  LET samples_per_pixel == SamplesPerPixelOf(d)
  IN  IF Len(shape) = 2 THEN [type |-> "2d_gray", log |-> <<>>]
      ELSE IF samples_per_pixel > 1
      THEN IF Len(shape) = 3 /\ shape[3] \in {3, 4}
           THEN [type |-> "2d_rgb", log |-> <<>>]
           ELSE [type |-> "unsupported",
                 log |-> <<UnexpectedShapeWarning(shape, samples_per_pixel)>>]
      ELSE IF Len(shape) = 3 THEN [type |-> "3d_volume", log |-> <<>>]
      ELSE [type |-> "unsupported", log |-> <<>>]

\* A classifier that gives up on an array whose leading dimension is not the
\* declared NumberOfFrames.
Strict_get_image_type(d, shape) ==
  LET samples_per_pixel == SamplesPerPixelOf(d)
      num_frames == d.NumberOfFrames
  IN  IF samples_per_pixel > 1
      THEN IF Len(shape) = 3 /\ shape[3] \in {3, 4}
           THEN [type |-> "2d_rgb", log |-> <<>>]
           ELSE [type |-> "unsupported",
                 log |-> <<UnexpectedShapeWarning(shape, samples_per_pixel)>>]
      ELSE IF Len(shape) = 2
      THEN [type |-> "2d_gray", log |-> <<>>]
      ELSE IF Len(shape) = 3
      THEN IF num_frames # None /\ shape[1] # num_frames[1]
           THEN [type |-> "unsupported",
                 log |-> <<FrameMismatchWarning(num_frames[1], shape[1])>>]
           ELSE [type |-> "3d_volume", log |-> <<>>]
      ELSE [type |-> "unsupported", log |-> <<>>]

_get_image_type(d, shape) ==
  LET samples_per_pixel == SamplesPerPixelOf(d)
      num_frames == d.NumberOfFrames
  IN  IF samples_per_pixel > 1
      THEN IF Len(shape) = 3 /\ shape[3] \in {3, 4}
           THEN [type |-> "2d_rgb", log |-> <<>>]
           ELSE [type |-> "unsupported",
                 log |-> <<UnexpectedShapeWarning(shape, samples_per_pixel)>>]
      ELSE IF Len(shape) = 2
      THEN [type |-> "2d_gray", log |-> <<>>]
      ELSE IF Len(shape) = 3
      THEN [type |-> "3d_volume",
            log |-> IF num_frames # None /\ shape[1] # num_frames[1]
                    THEN <<FrameMismatchWarning(num_frames[1], shape[1])>>
                    ELSE <<>>]
      ELSE [type |-> "unsupported", log |-> <<>>]

(***************************************************************************)
(* Grid planning: viewer.py, display_images, the four lines that turn the  *)
(* image count and max_cols into cols and rows.                            *)
(***************************************************************************)
\* int(n ** 0.5) for n >= 0
ISqrt(n) == CHOOSE k \in 0..n : k * k <= n /\ (k + 1) * (k + 1) > n

\* Python's a // b (floor division) for a >= 0 and b # 0
PyFloorDiv(a, b) ==
  IF b > 0 THEN a \div b ELSE -((a + (-b) - 1) \div (-b))

\* A planner that takes the hint as the column count without capping it.
UncappedGridPlan(n, hint) ==
  LET cols == IF hint = None THEN ISqrt(n) ELSE hint[1]
  IN  IF cols = 0
      THEN [cols |-> 0, rows |-> 0, raised |-> "ZeroDivisionError"]
      ELSE [cols |-> cols, rows |-> PyFloorDiv(n - 1, cols) + 1, raised |-> "none"]

\* A planner that rounds the row count down.
TruncatingGridPlan(n, hint) ==
  LET mc == IF hint = None THEN ISqrt(n) ELSE hint[1]
      cols == Min(n, mc)
  IN  IF cols = 0
      THEN [cols |-> 0, rows |-> 0, raised |-> "ZeroDivisionError"]
      ELSE [cols |-> cols, rows |-> PyFloorDiv(n, cols), raised |-> "none"]

GridPlan(n, hint) ==
  LET mc == IF hint = None THEN ISqrt(n) ELSE hint[1]
      cols == Min(n, mc)
  IN  IF cols = 0
      THEN [cols |-> 0, rows |-> 0, raised |-> "ZeroDivisionError"]
      ELSE [cols |-> cols, rows |-> PyFloorDiv(n - 1, cols) + 1, raised |-> "none"]

(***************************************************************************)
(* File loader: utils.py load_dicom_files and core.py read_dicom_files.    *)
(* Both evaluate [dcmread(f) for f in files] inside a try that turns       *)
(* FileNotFoundError and InvalidDicomError into DicomReadError.            *)
(***************************************************************************)
\* A comprehension that goes on to the remaining paths after a failure and
\* reports the first failure at the end.
RECURSIVE KeepGoing_dcmread_each(_, _, _)
KeepGoing_dcmread_each(fs, i, acc) ==
  IF i > Len(fs)
  THEN acc
  ELSE LET f == fs[i]
       IN  IF Disk[f].status = "ok"
           THEN KeepGoing_dcmread_each(fs, i + 1,
                  [acc EXCEPT !.reads = Append(@, f),
                              !.dcms = IF acc.err = "none" THEN Append(@, Disk[f].dcm) ELSE @])
           ELSE KeepGoing_dcmread_each(fs, i + 1,
                  [acc EXCEPT !.reads = Append(@, f),
                              !.dcms = <<>>,
                              !.err = IF @ = "none" THEN Disk[f].status ELSE @,
                              !.at = IF acc.err = "none" THEN f ELSE @])

\* The list comprehension: one dcmread per path, in order, until one raises.
RECURSIVE dcmread_each(_, _, _)
dcmread_each(fs, i, acc) ==
  IF i > Len(fs)
  THEN acc
  ELSE LET f == fs[i]
       IN  IF Disk[f].status = "ok"
           THEN dcmread_each(fs, i + 1,
                  [acc EXCEPT !.reads = Append(@, f), !.dcms = Append(@, Disk[f].dcm)])
           ELSE [reads |-> Append(acc.reads, f), dcms |-> <<>>,
                 err |-> Disk[f].status, at |-> f]

NoneRead == [reads |-> <<>>, dcms |-> <<>>, err |-> "none", at |-> ""]

ReadErrorMessage(r) ==
  "Files could not be read due to " \o r.err \o ": " \o r.at

load_dicom_files(fs) ==
  LET r == dcmread_each(fs, 1, NoneRead)
  IN  IF r.err \in {"FileNotFoundError", "InvalidDicomError"}
      THEN [reads |-> r.reads, result |-> <<>>, raised |-> "DicomReadError",
            errmsg |-> ReadErrorMessage(r)]
      ELSE [reads |-> r.reads, result |-> r.dcms, raised |-> "none", errmsg |-> ""]

read_dicom_files(fs) ==
  LET r == dcmread_each(fs, 1, NoneRead)
  IN  IF r.err \in {"FileNotFoundError", "InvalidDicomError"}
      THEN [reads |-> r.reads, result |-> <<>>, raised |-> "DicomReadError",
            errmsg |-> ReadErrorMessage(r)]
      ELSE [reads |-> r.reads, result |-> r.dcms, raised |-> "none", errmsg |-> ""]

\* core.validate_files: reads every file as read_dicom_files does and
\* returns nothing; it writes nothing.
validate_files(fs) ==
  LET r == read_dicom_files(fs)
  IN  [reads |-> r.reads, raised |-> r.raised, errmsg |-> r.errmsg]

(***************************************************************************)
(* Metadata printer: core.py print_stats.                                  *)
(***************************************************************************)
Banner(f) == "*****" \o " " \o f \o " " \o "*****"

\* str(dcm): the collaborator's dump of one dataset.
Dump(d) == "<dump of " \o d.uid \o ">"

\* print(banner, dcm, sep="\n") for each pair of zip(files, dcms), from pair i on
RECURSIVE PrintPairs(_, _, _)
PrintPairs(fs, dcms, i) ==
  IF i > Len(fs) THEN <<>>
  ELSE <<Banner(fs[i]), Dump(dcms[i])>> \o PrintPairs(fs, dcms, i + 1)

\* A printer that walks the pairs from the last to the first.
RECURSIVE BackwardPairs(_, _, _)
BackwardPairs(fs, dcms, i) ==
  IF i < 1 THEN <<>>
  ELSE <<Banner(fs[i]), Dump(dcms[i])>> \o BackwardPairs(fs, dcms, i - 1)

Backward_print_stats(fs) ==
  LET r == read_dicom_files(fs)
  IN  IF r.raised # "none"
      THEN [reads |-> r.reads, stdout |-> <<>>, raised |-> r.raised, errmsg |-> r.errmsg]
      ELSE [reads |-> r.reads, stdout |-> BackwardPairs(fs, r.result, Len(fs)),
            raised |-> "none", errmsg |-> ""]

\* A printer that reads and prints file by file, so that the files before an
\* unreadable one are printed before the error is raised.
Eager_print_stats(fs) ==
  LET r == dcmread_each(fs, 1, NoneRead)
      ok == SubSeq(fs, 1, Len(r.reads) - (IF r.err = "none" THEN 0 ELSE 1))
  IN  [reads |-> r.reads,
       stdout |-> PrintPairs(ok, [i \in 1..Len(ok) |-> Disk[ok[i]].dcm], 1),
       raised |-> IF r.err = "none" THEN "none" ELSE "DicomReadError",
       errmsg |-> IF r.err = "none" THEN "" ELSE ReadErrorMessage(r)]

print_stats(fs) ==
  LET r == read_dicom_files(fs)
  IN  IF r.raised # "none"
      THEN [reads |-> r.reads, stdout |-> <<>>, raised |-> r.raised, errmsg |-> r.errmsg]
      ELSE [reads |-> r.reads, stdout |-> PrintPairs(fs, r.result, 1),
            raised |-> "none", errmsg |-> ""]

(***************************************************************************)
(* Interactive viewer: viewer.py display_images.  The figure records the   *)
(* calls made on matplotlib: plt.figure, fig.add_subplot (one entry of     *)
(* axes per call, in call order, as axes_images holds them),               *)
(* plt.tight_layout, plt.subplots_adjust and plt.show.                     *)
(***************************************************************************)
NoFig ==
  [created |-> FALSE, rows |-> 0, cols |-> 0, axes |-> <<>>,
   tight |-> FALSE, adjusted |-> FALSE, shown |-> FALSE]

\* A title that shows the slice index as it is, counted from 0.
ZeroBased_SliceTitle(fname, slice_idx, frames) ==
  fname \o "\nSlice " \o ToString(slice_idx) \o "/" \o ToString(frames)

SliceTitle(fname, slice_idx, frames) ==
  fname \o "\nSlice " \o ToString(slice_idx + 1) \o "/" \o ToString(frames)

UnsupportedWarning(fname, shape) ==
  fname \o " has unsupported dimensions: " \o ShapeStr(shape)

\* One iteration of the loop over enumerate(files_with_pixels, start=1):
\* the axes it adds (none for an unsupported image) and what it logs.
\* make_update(im, ax, pixel_array, filename, slider): what the callback of
\* one volume keeps of its own image: the array (its dataset and its leading
\* dimension) and the file name.  The image, axes and slider it keeps are
\* those of the axes entry that holds it.
make_update(data, frames, fname) ==
  [data |-> data, frames |-> frames, fname |-> fname]

RenderOne(idx, filepath, d) ==
  LET shape == d.pixel_array[1]
      filename == PathName(filepath)
      t == _get_image_type(d, shape)
  IN  CASE t.type = "2d_gray" ->
             [axes |-> <<[idx |-> idx, kind |-> "2d_gray", title |-> filename,
                          cmap |-> "gray", colorbar |-> TRUE, slider |-> None,
                          data |-> d.uid, frame |-> None, update |-> None]>>,
              log |-> t.log]
        [] t.type = "2d_rgb" ->
             [axes |-> <<[idx |-> idx, kind |-> "2d_rgb", title |-> filename,
                          cmap |-> "none", colorbar |-> FALSE, slider |-> None,
                          data |-> d.uid, frame |-> None, update |-> None]>>,
              log |-> t.log]
        [] t.type = "3d_volume" ->
             [axes |-> <<[idx |-> idx, kind |-> "3d_volume",
                          title |-> SliceTitle(filename, 0, shape[1]),
                          cmap |-> "gray", colorbar |-> FALSE,
                          slider |-> Some([valmin |-> 0, valmax |-> shape[1] - 1, val |-> 0]),
                          data |-> d.uid, frame |-> Some(0),
                          update |-> Some(make_update(d.uid, shape[1], filename))]>>,
              log |-> t.log]
        [] OTHER ->
             [axes |-> <<>>,
              log |-> t.log \o <<UnsupportedWarning(filename, shape)>>]

\* A loop that gives each supported image the next free cell, closing the
\* gap an unsupported image would leave.
RECURSIVE Compacting_RenderFrom(_, _, _)
Compacting_RenderFrom(fwp, idx, acc) ==
  IF idx > Len(fwp)
  THEN acc
  ELSE LET one == RenderOne(Len(acc.axes) + 1, fwp[idx][1], fwp[idx][2])
       IN  Compacting_RenderFrom(fwp, idx + 1,
             [axes |-> acc.axes \o one.axes, log |-> acc.log \o one.log])

RECURSIVE RenderFrom(_, _, _)
RenderFrom(fwp, idx, acc) ==
  IF idx > Len(fwp)
  THEN acc
  ELSE LET one == RenderOne(idx, fwp[idx][1], fwp[idx][2])
       IN  RenderFrom(fwp, idx + 1,
             [axes |-> acc.axes \o one.axes, log |-> acc.log \o one.log])

\* [(f, dcm) for f, dcm in zip(files, dcms) if hasattr(dcm, "pixel_array")]
FilesWithPixels(fs, dcms) ==
  SelectSeq([i \in 1..Len(fs) |-> <<fs[i], dcms[i]>>],
            LAMBDA pair : pair[2].pixel_array # None)

DisplayEffect(rd, lg, exc, msg, f) ==
  [reads |-> rd, log |-> lg, raised |-> exc, errmsg |-> msg, fig |-> f]

\* A viewer that tests the list of datasets, not the filtered list, for
\* emptiness.
AnyFile_display_images(fs, mc) ==
  LET ld == load_dicom_files(fs)
  IN  IF ld.raised # "none"
      THEN DisplayEffect(ld.reads, <<>>, ld.raised, ld.errmsg, NoFig)
      ELSE
      LET files_with_pixels == FilesWithPixels(fs, ld.result)
          n == Len(files_with_pixels)
      IN  IF Len(ld.result) = 0
          THEN DisplayEffect(ld.reads, <<>>, "NoPixelDataError",
                             "No DICOM files with pixel data found.", NoFig)
          ELSE
          LET g == GridPlan(n, mc)
          IN  IF g.raised # "none"
              THEN DisplayEffect(ld.reads, <<>>, g.raised, "integer division or modulo by zero", NoFig)
              ELSE IF 5 * g.cols < 0 \/ 4 * g.rows < 0
              THEN DisplayEffect(ld.reads, <<>>, "ValueError", "figure size must be positive finite", NoFig)
              ELSE
              LET drawn == RenderFrom(files_with_pixels, 1, [axes |-> <<>>, log |-> <<>>])
                  made == [NoFig EXCEPT !.created = TRUE, !.rows = g.rows, !.cols = g.cols,
                                        !.axes = drawn.axes, !.tight = TRUE]
              IN  IF n = 1 /\ drawn.axes = <<>>
                  THEN DisplayEffect(ld.reads, drawn.log, "IndexError", "list index out of range", made)
                  ELSE DisplayEffect(ld.reads, drawn.log, "none", "",
                         [made EXCEPT !.adjusted = (n = 1 /\ drawn.axes[1].slider # None),
                                      !.shown = TRUE])

display_images(fs, mc) ==
  LET ld == load_dicom_files(fs)
  IN  IF ld.raised # "none"
      THEN DisplayEffect(ld.reads, <<>>, ld.raised, ld.errmsg, NoFig)
      ELSE
      LET files_with_pixels == FilesWithPixels(fs, ld.result)
          n == Len(files_with_pixels)
      IN  IF n = 0
          THEN DisplayEffect(ld.reads, <<>>, "NoPixelDataError",
                             "No DICOM files with pixel data found.", NoFig)
          ELSE
          LET g == GridPlan(n, mc)
          IN  IF g.raised # "none"
              THEN DisplayEffect(ld.reads, <<>>, g.raised, "integer division or modulo by zero", NoFig)
              ELSE IF 5 * g.cols < 0 \/ 4 * g.rows < 0
              THEN \* plt.figure refuses a negative figsize
                   DisplayEffect(ld.reads, <<>>, "ValueError", "figure size must be positive finite", NoFig)
              ELSE
              LET drawn == RenderFrom(files_with_pixels, 1, [axes |-> <<>>, log |-> <<>>])
                  made == [NoFig EXCEPT !.created = TRUE, !.rows = g.rows, !.cols = g.cols,
                                        !.axes = drawn.axes, !.tight = TRUE]
              IN  IF n = 1 /\ drawn.axes = <<>>
                  THEN \* axes_images[0] of an empty list
                       DisplayEffect(ld.reads, drawn.log, "IndexError", "list index out of range", made)
                  ELSE DisplayEffect(ld.reads, drawn.log, "none", "",
                         [made EXCEPT !.adjusted = (n = 1 /\ drawn.axes[1].slider # None),
                                      !.shown = TRUE])

(***************************************************************************)
(* Slider events, while plt.show blocks.  The Slider widget stores the new *)
(* value (one of valmin..valmax in steps of valstep = 1) and then calls    *)
(* the callback registered with on_changed: the update closure of that     *)
(* volume.                                                                 *)
(***************************************************************************)
\* The positions in axes_images of the entries that have a slider.
WithSlider(axes) == {k \in 1..Len(axes) : axes[k].slider # None}

\* Callbacks that read the loop's variables when they run, not the values
\* handed to make_update: each acts on the volume the loop handled last.
LateBinding_SliderUpdate(axes, k, v) ==
  LET moved == [axes EXCEPT ![k].slider = Some([@[1] EXCEPT !.val = v])]
      last == CHOOSE m \in WithSlider(axes) : \A j \in WithSlider(axes) : j <= m
      cl == moved[last].update[1]
      slice_idx == moved[last].slider[1].val
  IN  [moved EXCEPT ![last].frame = Some(slice_idx),
                    ![last].data = cl.data,
                    ![last].title = SliceTitle(cl.fname, slice_idx, cl.frames)]

\* The slider of entry k moves to v; update(val) then runs with the image,
\* axes, array, file name and slider of entry k.
SliderUpdate(axes, k, v) ==
  LET moved == [axes EXCEPT ![k].slider = Some([@[1] EXCEPT !.val = v])]
      cl == moved[k].update[1]
      slice_idx == moved[k].slider[1].val
  IN  [moved EXCEPT ![k].frame = Some(slice_idx),
                    ![k].data = cl.data,
                    ![k].title = SliceTitle(cl.fname, slice_idx, cl.frames)]

(***************************************************************************)
(* Command line: cli.py main, from the return of parser.parse_args().      *)
(***************************************************************************)
ColumnsMessage == "--columns must be a positive integer"

\* A check that lets 0 through.
NegativeOnly_ColumnsInvalid(a) == a.columns # None /\ a.columns[1] < 0

\* args.columns is not None and args.columns < 1
ColumnsInvalid(a) == a.columns # None /\ a.columns[1] < 1

\* A check that is fatal whether or not --display is given.
AlwaysFatal_ColumnsVerdict(a) ==
  IF ColumnsInvalid(a) THEN "error" ELSE "ok"

\* What the columns validation does: parser.error, logger.warning or nothing.
ColumnsVerdict(a) ==
  IF ColumnsInvalid(a)
  THEN IF a.display THEN "error" ELSE "warning"
  ELSE "ok"

\* A handler that prints the error and falls off the end of main.
NoExit_HandleException(exc, msg) ==
  IF exc \in {"DicomReadError", "NoPixelDataError"}
  THEN [out |-> <<msg>>, err |-> <<>>, code |-> 0]
  ELSE [out |-> <<>>, err |-> <<"Traceback (most recent call last): " \o exc>>, code |-> 1]

\* except (DicomReadError, NoPixelDataError): print(err); sys.exit(1).  Any
\* other exception leaves main uncaught: the interpreter writes the traceback
\* to standard error and exits with status 1.
HandleException(exc, msg) ==
  IF exc \in {"DicomReadError", "NoPixelDataError"}
  THEN [out |-> <<msg>>, err |-> <<>>, code |-> 1]
  ELSE [out |-> <<>>, err |-> <<"Traceback (most recent call last): " \o exc>>, code |-> 1]

\* A main that goes on after the metadata step whether or not it raised.
IgnoreError_AfterStats(a, exc) ==
  IF a.display THEN "display" ELSE "return"

\* Where main goes after the metadata step.
AfterStats(a, exc) ==
  IF exc # "none" THEN "except" ELSE IF a.display THEN "display" ELSE "return"

(***************************************************************************)
(* States.                                                                 *)
(***************************************************************************)
NoArgs == [display |-> FALSE, quiet |-> FALSE, columns |-> None]
NoPlan == [cols |-> 0, rows |-> 0, raised |-> "none"]

ColumnsGiven == Opt(-1..MaxCols)
Shapes == SeqsOf(1..MaxDim, 1, MaxRank)

\* Nothing has run yet.
Fresh ==
  /\ reads = <<>> /\ stdout = <<>> /\ stderr = <<>> /\ log = <<>>
  /\ raised = "none" /\ errmsg = "" /\ result = <<>>
  /\ fig = NoFig /\ exitCode = None
  /\ image_type = "" /\ plan = NoPlan

\* A run of the command line.
Init ==
  /\ pc = "validate_columns" /\ call = "main"
  /\ files \in SeqsOf(Paths, 1, MaxFiles)
  /\ args \in [display : BOOLEAN, quiet : BOOLEAN, columns : ColumnsGiven]
  /\ max_cols = None
  /\ dcm = NoDataset /\ pixel_array = <<>> /\ num_images = 0
  /\ Fresh

\* One call of a library function.
InitLib ==
  /\ pc = "idle" /\ call = "none"
  /\ files \in SeqsOf(Paths, 0, MaxFiles)
  /\ max_cols \in ColumnsGiven
  /\ args = NoArgs
  /\ dcm = NoDataset /\ pixel_array = <<>> /\ num_images = 0
  /\ Fresh

\* One call of the classifier.
InitClassify ==
  /\ pc = "idle" /\ call = "_get_image_type"
  /\ files = <<>> /\ max_cols = None /\ args = NoArgs
  /\ pixel_array \in Shapes
  /\ dcm \in {Dataset("x", Some(pixel_array), spp, frames) :
                spp \in Opt(0..MaxSpp), frames \in Opt(1..MaxDim)}
  /\ num_images = 0
  /\ Fresh

\* One planning of the grid.
InitGrid ==
  /\ pc = "idle" /\ call = "plan"
  /\ files = <<>> /\ args = NoArgs
  /\ num_images \in 1..MaxImages
  /\ max_cols \in Opt(-1..MaxHint)
  /\ dcm = NoDataset /\ pixel_array = <<>>
  /\ Fresh

(***************************************************************************)
(* Library calls.                                                          *)
(***************************************************************************)
CallLoadDicomFiles ==
  /\ pc = "idle" /\ call = "none"
  /\ LET r == load_dicom_files(files)
     IN  /\ reads' = reads \o r.reads
         /\ result' = r.result
         /\ raised' = r.raised
         /\ errmsg' = r.errmsg
  /\ pc' = "returned" /\ call' = "load_dicom_files"
  /\ UNCHANGED <<files, max_cols, args, stdout, stderr, log, fig, exitCode,
                 dcm, pixel_array, image_type, num_images, plan>>

CallReadDicomFiles ==
  /\ pc = "idle" /\ call = "none"
  /\ LET r == read_dicom_files(files)
     IN  /\ reads' = reads \o r.reads
         /\ result' = r.result
         /\ raised' = r.raised
         /\ errmsg' = r.errmsg
  /\ pc' = "returned" /\ call' = "read_dicom_files"
  /\ UNCHANGED <<files, max_cols, args, stdout, stderr, log, fig, exitCode,
                 dcm, pixel_array, image_type, num_images, plan>>

CallValidateFiles ==
  /\ pc = "idle" /\ call = "none"
  /\ LET r == validate_files(files)
     IN  /\ reads' = reads \o r.reads
         /\ raised' = r.raised
         /\ errmsg' = r.errmsg
  /\ pc' = "returned" /\ call' = "validate_files"
  /\ UNCHANGED <<files, max_cols, args, stdout, stderr, log, result, fig, exitCode,
                 dcm, pixel_array, image_type, num_images, plan>>

CallPrintStats ==
  /\ pc = "idle" /\ call = "none"
  /\ LET r == print_stats(files)
     IN  /\ reads' = reads \o r.reads
         /\ stdout' = stdout \o r.stdout
         /\ raised' = r.raised
         /\ errmsg' = r.errmsg
  /\ pc' = "returned" /\ call' = "print_stats"
  /\ UNCHANGED <<files, max_cols, args, stderr, log, result, fig, exitCode,
                 dcm, pixel_array, image_type, num_images, plan>>

CallDisplayImages ==
  /\ pc = "idle" /\ call = "none"
  /\ LET r == display_images(files, max_cols)
     IN  /\ reads' = reads \o r.reads
         /\ log' = log \o r.log
         /\ raised' = r.raised
         /\ errmsg' = r.errmsg
         /\ fig' = r.fig
         /\ pc' = IF r.raised = "none" THEN "showing" ELSE "returned"
  /\ call' = "display_images"
  /\ UNCHANGED <<files, max_cols, args, stdout, stderr, result, exitCode,
                 dcm, pixel_array, image_type, num_images, plan>>

\* The user moves the slider of one volume of the shown figure.
SliderChanged ==
  /\ pc = "showing"
  /\ \E k \in WithSlider(fig.axes) :
       \E v \in fig.axes[k].slider[1].valmin..fig.axes[k].slider[1].valmax :
         /\ v # fig.axes[k].slider[1].val
         /\ fig' = [fig EXCEPT !.axes = SliderUpdate(fig.axes, k, v)]
  /\ UNCHANGED <<pc, call, files, max_cols, args, reads, stdout, stderr, log, raised,
                 errmsg, result, exitCode, dcm, pixel_array, image_type, num_images, plan>>

\* The user closes the window: plt.show and display_images return.
CloseWindow ==
  /\ pc = "showing"
  /\ pc' = "returned"
  /\ UNCHANGED <<call, files, max_cols, args, reads, stdout, stderr, log, raised,
                 errmsg, result, fig, exitCode, dcm, pixel_array, image_type,
                 num_images, plan>>

NextLib ==
  \/ CallLoadDicomFiles
  \/ CallReadDicomFiles
  \/ CallValidateFiles
  \/ CallPrintStats
  \/ CallDisplayImages
  \/ SliderChanged
  \/ CloseWindow

SpecLib == InitLib /\ [][NextLib]_vars

(***************************************************************************)
(* The classifier and the planner on their own.                            *)
(***************************************************************************)
Classify ==
  /\ pc = "idle" /\ call = "_get_image_type"
  /\ LET r == _get_image_type(dcm, pixel_array)
     IN  /\ image_type' = r.type
         /\ log' = log \o r.log
  /\ pc' = "returned"
  /\ UNCHANGED <<call, files, max_cols, args, reads, stdout, stderr, raised, errmsg,
                 result, fig, exitCode, dcm, pixel_array, num_images, plan>>

\* One pass of display_images' loop body over the dataset, as the first
\* image of a figure of one cell: classification, then the subplot.
RenderImage ==
  /\ pc = "idle" /\ call = "_get_image_type"
  /\ LET one == RenderOne(1, "x.dcm", dcm)
     IN  /\ image_type' = _get_image_type(dcm, dcm.pixel_array[1]).type
         /\ log' = log \o one.log
         /\ fig' = [NoFig EXCEPT !.created = TRUE, !.rows = 1, !.cols = 1,
                                 !.axes = one.axes]
  /\ pc' = "rendered"
  /\ UNCHANGED <<call, files, max_cols, args, reads, stdout, stderr, raised, errmsg,
                 result, exitCode, dcm, pixel_array, num_images, plan>>

NextClassify ==
  \/ Classify
  \/ RenderImage

SpecClassify == InitClassify /\ [][NextClassify]_vars

PlanGrid ==
  /\ pc = "idle" /\ call = "plan"
  /\ plan' = GridPlan(num_images, max_cols)
  /\ pc' = "returned"
  /\ UNCHANGED <<call, files, max_cols, args, reads, stdout, stderr, log, raised, errmsg,
                 result, fig, exitCode, dcm, pixel_array, image_type, num_images>>

NextGrid == PlanGrid

SpecGrid == InitGrid /\ [][NextGrid]_vars

(***************************************************************************)
(* The steps of main.                                                      *)
(***************************************************************************)
ValidateColumns ==
  /\ pc = "validate_columns"
  /\ LET v == ColumnsVerdict(args)
     IN  /\ stderr' = IF v = "error"
                      THEN stderr \o <<"usage: dicom-info", "error: " \o ColumnsMessage>>
                      ELSE stderr
         /\ exitCode' = IF v = "error" THEN Some(2) ELSE exitCode
         /\ log' = IF v = "warning"
                   THEN Append(log, ColumnsMessage \o ". This only applies to the --display flag.")
                   ELSE log
         /\ pc' = IF v = "error" THEN "exited" ELSE "stats"
  /\ UNCHANGED <<call, files, max_cols, args, reads, stdout, raised, errmsg, result, fig,
                 dcm, pixel_array, image_type, num_images, plan>>

MainPrintStats ==
  /\ pc = "stats" /\ ~args.quiet
  /\ LET r == print_stats(files)
     IN  /\ reads' = reads \o r.reads
         /\ stdout' = stdout \o r.stdout
         /\ raised' = r.raised
         /\ errmsg' = r.errmsg
         /\ pc' = AfterStats(args, r.raised)
  /\ UNCHANGED <<call, files, max_cols, args, stderr, log, result, fig, exitCode,
                 dcm, pixel_array, image_type, num_images, plan>>

MainValidateFiles ==
  /\ pc = "stats" /\ args.quiet
  /\ LET r == validate_files(files)
     IN  /\ reads' = reads \o r.reads
         /\ raised' = r.raised
         /\ errmsg' = r.errmsg
         /\ pc' = AfterStats(args, r.raised)
  /\ UNCHANGED <<call, files, max_cols, args, stdout, stderr, log, result, fig, exitCode,
                 dcm, pixel_array, image_type, num_images, plan>>

MainDisplayImages ==
  /\ pc = "display"
  /\ LET r == display_images(files, args.columns)
     IN  /\ reads' = reads \o r.reads
         /\ log' = log \o r.log
         /\ raised' = r.raised
         /\ errmsg' = r.errmsg
         /\ fig' = r.fig
         /\ pc' = IF r.raised # "none" THEN "except" ELSE "return"
  /\ UNCHANGED <<call, files, max_cols, args, stdout, stderr, result, exitCode,
                 dcm, pixel_array, image_type, num_images, plan>>

MainExcept ==
  /\ pc = "except"
  /\ LET h == HandleException(raised, errmsg)
     IN  /\ stdout' = stdout \o h.out
         /\ stderr' = stderr \o h.err
         /\ exitCode' = Some(h.code)
  /\ pc' = "exited"
  /\ UNCHANGED <<call, files, max_cols, args, reads, log, raised, errmsg, result, fig,
                 dcm, pixel_array, image_type, num_images, plan>>

MainReturn ==
  /\ pc = "return"
  /\ exitCode' = Some(0)
  /\ pc' = "exited"
  /\ UNCHANGED <<call, files, max_cols, args, reads, stdout, stderr, log, raised, errmsg,
                 result, fig, dcm, pixel_array, image_type, num_images, plan>>

Next ==
  \/ ValidateColumns
  \/ MainPrintStats
  \/ MainValidateFiles
  \/ MainDisplayImages
  \/ MainExcept
  \/ MainReturn

Spec == Init /\ [][Next]_vars

(***************************************************************************)
(* Properties.                                                             *)
(***************************************************************************)
\* The position of the first path of fs that cannot be read.
FirstBad(fs) ==
  CHOOSE i \in 1..Len(fs) :
    ~Readable(fs[i]) /\ \A j \in 1..(i - 1) : Readable(fs[j])

HasPixels(p) == Readable(p) /\ Disk[p].dcm.pixel_array # None
HintAbsentOrPositive(h) == h = None \/ h[1] >= 1

\* C1: when some path of the list is missing or is no valid DICOM file,
\* load_dicom_files and read_dicom_files raise DicomReadError, return no
\* list, and have read exactly the paths up to and including the first
\* failing one, in order: none after it.
C1_LoadAllOrNothing ==
  (pc = "returned" /\ call \in {"load_dicom_files", "read_dicom_files"}
     /\ ~AllReadable(files))
  => /\ raised = "DicomReadError"
     /\ result = <<>>
     /\ reads = SubSeq(files, 1, FirstBad(files))

C1_Witness ==
  /\ pc = "returned" /\ call = "load_dicom_files"
  /\ Len(files) = 3 /\ Readable(files[1]) /\ ~Readable(files[2])
  /\ raised = "DicomReadError" /\ Len(reads) = 2

\* C2: when some path of the list cannot be read, at whatever position,
\* print_stats and display_images raise DicomReadError and have produced
\* nothing: no banner or dump on standard output, no figure, no subplot, no
\* layout or show call.
C2_NoOutputOnReadError ==
  (pc = "returned" /\ call \in {"print_stats", "display_images"}
     /\ ~AllReadable(files))
  => /\ raised = "DicomReadError"
     /\ stdout = <<>>
     /\ ~fig.created /\ fig.axes = <<>> /\ ~fig.tight /\ ~fig.shown

C2_Witness ==
  /\ pc = "returned" /\ call = "print_stats"
  /\ Len(files) = 2 /\ Readable(files[1]) /\ ~Readable(files[2])
  /\ raised = "DicomReadError" /\ stdout = <<>>

\* C3: for a non-empty list of readable files print_stats writes exactly one
\* banner and dump per file, in input order: line 2i-1 is
\* "***** <path i> *****" and line 2i is the dump of the i-th dataset.
C3_BannerDumpPerFile ==
  (pc = "returned" /\ call = "print_stats" /\ files # <<>> /\ AllReadable(files))
  => /\ raised = "none"
     /\ Len(stdout) = 2 * Len(files)
     /\ \A i \in 1..Len(files) :
          /\ stdout[2 * i - 1] = "***** " \o files[i] \o " *****"
          /\ stdout[2 * i] = Dump(Disk[files[i]].dcm)

C3_Witness ==
  /\ pc = "returned" /\ call = "print_stats"
  /\ Len(files) = 3 /\ AllReadable(files)
  /\ files[1] # files[2] /\ files[2] # files[3] /\ files[1] # files[3]
  /\ Len(stdout) = 6

\* C4: the classifier always answers one of the four categories, by the
\* stated precedence: with SamplesPerPixel (1 when absent) above 1 the answer
\* is 2d_rgb exactly for a rank-3 array whose last dimension is 3 or 4 and
\* unsupported otherwise; else rank 2 is 2d_gray, rank 3 is 3d_volume and
\* every other rank is unsupported.
C4_ClassifierPrecedence ==
  (pc = "returned" /\ call = "_get_image_type")
  => LET spp == IF dcm.SamplesPerPixel = None THEN 1 ELSE dcm.SamplesPerPixel[1]
         rank == Len(pixel_array)
         colour == rank = 3 /\ pixel_array[rank] \in {3, 4}
     IN  /\ image_type \in {"2d_gray", "2d_rgb", "3d_volume", "unsupported"}
         /\ (spp > 1 /\ colour) => image_type = "2d_rgb"
         /\ (spp > 1 /\ ~colour) => image_type = "unsupported"
         /\ (spp <= 1 /\ rank = 2) => image_type = "2d_gray"
         /\ (spp <= 1 /\ rank = 3) => image_type = "3d_volume"
         /\ (spp <= 1 /\ rank \notin {2, 3}) => image_type = "unsupported"

C4_Witness ==
  /\ pc = "returned" /\ call = "_get_image_type"
  /\ dcm.SamplesPerPixel = Some(3) /\ Len(pixel_array) = 2
  /\ image_type = "unsupported"

\* C5: for one image or more and a hint that is absent or positive, cols is
\* min(imageCount, hint) with a hint and max(1, floor(sqrt(imageCount)))
\* without, and rows is ceil(imageCount / cols); (4, none) gives 2 by 2,
\* (5, hint 2) gives 2 columns and 3 rows, (1, none) gives 1 by 1.
C5_GridFormula ==
  (pc = "returned" /\ call = "plan" /\ HintAbsentOrPositive(max_cols))
  => /\ plan.raised = "none"
     /\ max_cols # None =>
          /\ plan.cols <= num_images /\ plan.cols <= max_cols[1]
          /\ plan.cols \in {num_images, max_cols[1]}
     /\ max_cols = None =>
          \E k \in 0..num_images :
            /\ k * k <= num_images /\ (k + 1) * (k + 1) > num_images
            /\ plan.cols = IF k >= 1 THEN k ELSE 1
     /\ plan.cols >= 1
     /\ (plan.rows - 1) * plan.cols < num_images
     /\ num_images <= plan.rows * plan.cols
     /\ (num_images = 4 /\ max_cols = None) => (plan.cols = 2 /\ plan.rows = 2)
     /\ (num_images = 5 /\ max_cols = Some(2)) => (plan.cols = 2 /\ plan.rows = 3)
     /\ (num_images = 1 /\ max_cols = None) => (plan.cols = 1 /\ plan.rows = 1)

C5_Witness ==
  /\ pc = "returned" /\ call = "plan"
  /\ num_images = 5 /\ max_cols = Some(2)
  /\ plan.cols = 2 /\ plan.rows = 3

\* C6 as stated: for one image or more and a hint that is absent or
\* positive, rows * cols >= imageCount, 1 <= cols <= max(1, imageCount), and
\* cols is the hint whenever a positive hint is given.
C6_ColsIsTheHint ==
  (pc = "returned" /\ call = "plan" /\ HintAbsentOrPositive(max_cols))
  => /\ plan.rows * plan.cols >= num_images
     /\ 1 <= plan.cols
     /\ plan.cols <= (IF num_images >= 1 THEN num_images ELSE 1)
     /\ max_cols # None => plan.cols = max_cols[1]

\* C6 as amended: for one image or more and a hint that is absent or
\* positive, rows * cols >= imageCount and 1 <= cols <= max(1, imageCount);
\* cols is the hint when a positive hint no larger than imageCount is given,
\* and imageCount when the hint is larger.
C6_ColsIsTheCappedHint ==
  (pc = "returned" /\ call = "plan" /\ HintAbsentOrPositive(max_cols))
  => /\ plan.rows * plan.cols >= num_images
     /\ 1 <= plan.cols
     /\ plan.cols <= (IF num_images >= 1 THEN num_images ELSE 1)
     /\ (max_cols # None /\ max_cols[1] <= num_images) => plan.cols = max_cols[1]
     /\ (max_cols # None /\ max_cols[1] > num_images) => plan.cols = num_images

C6_Witness ==
  /\ pc = "returned" /\ call = "plan"
  /\ max_cols # None /\ max_cols[1] > num_images
  /\ plan.cols = num_images /\ plan.rows = 1

\* The category the classifier gives the pixel data of path p.
CategoryOf(p) ==
  _get_image_type(Disk[p].dcm, Disk[p].dcm.pixel_array[1]).type

\* C7: when every file is read and at least one has pixel data,
\* display_images raises nothing whatever the mix of supported and
\* unsupported images (a lone unsupported image included): it adds one
\* subplot per supported image, logs a warning for each unsupported one and
\* reaches plt.show.
C7_ClassificationNeverFatal ==
  (pc = "returned" /\ call = "display_images" /\ AllReadable(files)
     /\ (\E i \in 1..Len(files) : HasPixels(files[i]))
     /\ HintAbsentOrPositive(max_cols))
  => /\ raised = "none"
     /\ fig.shown
     /\ Len(fig.axes) =
          Cardinality({i \in 1..Len(files) :
                         HasPixels(files[i]) /\ CategoryOf(files[i]) # "unsupported"})
     /\ \A i \in 1..Len(files) :
          (HasPixels(files[i]) /\ CategoryOf(files[i]) = "unsupported")
          => \E j \in 1..Len(log) :
               log[j] = UnsupportedWarning(PathName(files[i]),
                                           Disk[files[i]].dcm.pixel_array[1])

\* The command line is a usage error: a columns value below 1 with --display.
UsageError == args.display /\ args.columns # None /\ args.columns[1] <= 0

\* C8: main ends with status 0 on success, with status 1 and the error's
\* message printed when DicomReadError or NoPixelDataError was raised, and
\* with status 2 on a usage error; a read or no-pixel-data failure never
\* ends with 0 or 2, and 0 and 2 end no other kind of run.
C8_ExitCodes ==
  pc = "exited"
  => /\ exitCode \in {Some(0), Some(1), Some(2)}
     /\ raised \in {"DicomReadError", "NoPixelDataError"}
          => /\ exitCode = Some(1)
             /\ stdout # <<>> /\ stdout[Len(stdout)] = errmsg /\ errmsg # ""
     /\ UsageError => exitCode = Some(2)
     /\ (raised = "none" /\ ~UsageError) => exitCode = Some(0)
     /\ exitCode = Some(0) => (raised = "none" /\ ~UsageError)
     /\ exitCode = Some(2) => (UsageError /\ raised = "none")

C8_Witness ==
  /\ pc = "exited" /\ raised = "NoPixelDataError"
  /\ exitCode = Some(1)
  /\ stdout[Len(stdout)] = "No DICOM files with pixel data found."

ColumnsErrorLine == "error: --columns must be a positive integer"
InStderr(line) == \E i \in 1..Len(stderr) : stderr[i] = line

\* C9: with --display and a columns value of 0 or less, main ends with
\* status 2 and "--columns must be a positive integer" on standard error,
\* and at no point of that run has a file been read, a line been printed or
\* a figure been made; with --display and a columns value of 1 or more the
\* run never ends with status 2 and never writes that message.
C9_ColumnsRejectedBeforeIO ==
  /\ (args.display /\ args.columns # None /\ args.columns[1] <= 0)
     => /\ reads = <<>> /\ stdout = <<>> /\ fig = NoFig
        /\ pc \in {"validate_columns", "exited"}
        /\ pc = "exited" => (exitCode = Some(2) /\ InStderr(ColumnsErrorLine))
  /\ (args.display /\ args.columns # None /\ args.columns[1] >= 1)
     => /\ exitCode # Some(2)
        /\ ~InStderr(ColumnsErrorLine)

C9_Witness ==
  /\ pc = "exited" /\ args.display /\ args.columns = Some(0)
  /\ exitCode = Some(2) /\ InStderr(ColumnsErrorLine) /\ reads = <<>>

ColumnsWarningLine ==
  "--columns must be a positive integer. This only applies to the --display flag."

\* C10: without --display a columns value of 0 or less does not end the
\* run: it logs one warning and nothing else, and the files read, the lines
\* printed and the exit status are what the file list and --quiet alone
\* determine, the same as in a run without --columns.
C10_ColumnsIgnoredWithoutDisplay ==
  (pc = "exited" /\ ~args.display)
  => LET ok == AllReadable(files)
     IN  /\ exitCode = Some(IF ok THEN 0 ELSE 1)
         /\ reads = SubSeq(files, 1, IF ok THEN Len(files) ELSE FirstBad(files))
         /\ stdout = (IF ok /\ ~args.quiet THEN print_stats(files).stdout ELSE <<>>)
                       \o (IF ok THEN <<>> ELSE <<errmsg>>)
         /\ (~ok) => errmsg # ""
         /\ stderr = <<>>
         /\ fig = NoFig
         /\ log = IF args.columns # None /\ args.columns[1] <= 0
                  THEN <<ColumnsWarningLine>> ELSE <<>>

C10_Witness ==
  /\ pc = "exited" /\ ~args.display /\ ~args.quiet /\ args.columns = Some(0)
  /\ exitCode = Some(0) /\ Len(files) = 2 /\ Len(stdout) = 4 /\ Len(reads) = 2
  /\ log = <<ColumnsWarningLine>>

\* C11: when every file is read and none has pixel data, display_images
\* raises NoPixelDataError and has made no render call: no figure, no
\* subplot, no layout call and no show.
C11_NoPixelDataNoRender ==
  (pc = "returned" /\ call = "display_images" /\ AllReadable(files)
     /\ \A i \in 1..Len(files) : ~HasPixels(files[i]))
  => /\ raised = "NoPixelDataError"
     /\ errmsg = "No DICOM files with pixel data found."
     /\ ~fig.created /\ fig.axes = <<>> /\ ~fig.tight /\ ~fig.adjusted /\ ~fig.shown

C11_Witness ==
  /\ pc = "returned" /\ call = "display_images"
  /\ Len(files) = 2 /\ \A i \in 1..2 : (Readable(files[i]) /\ ~HasPixels(files[i]))
  /\ raised = "NoPixelDataError" /\ fig = NoFig

\* The banner and dump lines print_stats can write.
MetadataLines ==
  {Banner(p) : p \in Paths} \cup {Dump(Disk[p].dcm) : p \in Paths}

\* C12: --display switches main from printing metadata to displaying: in a
\* run with --display and without --quiet no banner and no dump is written
\* to standard output.
C12_DisplayInsteadOfMetadata ==
  (args.display /\ ~args.quiet)
  => \A i \in 1..Len(stdout) : stdout[i] \notin MetadataLines

NoMetadataPrinted == \A i \in 1..Len(stdout) : stdout[i] \notin MetadataLines

\* C13 as stated: with --quiet no banner or dump is printed; the run ends
\* with status 1 when some file cannot be read, and with status 0 when all
\* can be read, after going on to the display when --display is given.
C13_QuietExitZeroWhenReadable ==
  args.quiet
  => /\ NoMetadataPrinted
     /\ (pc = "exited" /\ ~AllReadable(files)) => exitCode = Some(1)
     /\ (pc = "exited" /\ AllReadable(files)) => exitCode = Some(0)

\* C13 as amended: with --quiet no banner or dump is printed, with or
\* without --display.  Unless the command line is rejected as a usage error
\* (status 2), the run ends with status 1 and no figure when some file
\* cannot be read; with status 0 when all can be read and --display is not
\* given; and, when all can be read and --display is given, it goes on to
\* display_images (which reads the files again) and ends with status 0
\* exactly when display_images returns without raising, with status 1
\* otherwise.
C13_QuietValidatesReadability ==
  args.quiet
  => /\ NoMetadataPrinted
     /\ (pc = "exited" /\ UsageError) => exitCode = Some(2)
     /\ (pc = "exited" /\ ~UsageError /\ ~AllReadable(files))
          => (exitCode = Some(1) /\ raised = "DicomReadError" /\ fig = NoFig)
     /\ (pc = "exited" /\ ~UsageError /\ AllReadable(files) /\ ~args.display)
          => (exitCode = Some(0) /\ reads = files /\ stdout = <<>> /\ fig = NoFig)
     /\ (pc = "exited" /\ ~UsageError /\ AllReadable(files) /\ args.display)
          => /\ reads = files \o files
             /\ exitCode \in {Some(0), Some(1)}
             /\ exitCode = Some(0) <=> raised = "none"
             /\ exitCode = Some(0) <=> fig.shown

C13_Witness ==
  /\ pc = "exited" /\ args.quiet /\ args.display /\ ~UsageError
  /\ AllReadable(files) /\ raised = "NoPixelDataError" /\ exitCode = Some(1)
  /\ stdout = <<"No DICOM files with pixel data found.">>

\* C14: display_images called with a max_cols of 0 or less on files with
\* pixel data ends in the configuration error "columns must be a positive
\* integer" and in no other failure: no arithmetic error, and no figure with
\* zero or negative rows or columns.
C14_ConfigErrorOnBadColumns ==
  (pc = "returned" /\ call = "display_images" /\ AllReadable(files)
     /\ (\E i \in 1..Len(files) : HasPixels(files[i]))
     /\ max_cols # None /\ max_cols[1] <= 0)
  => /\ raised = "ConfigError"
     /\ errmsg = "columns must be a positive integer"
     /\ ~fig.created

\* The files with pixel data of the list given, in input order, each with
\* its dataset on disk.
Filtered == FilesWithPixels(files, [i \in 1..Len(files) |-> Disk[files[i]].dcm])

\* The leading dimension of the array shown in grid cell idx.
FrameCountAt(idx) == Filtered[idx][2].pixel_array[1][1]

Cursor(a) == a.slider[1].val
Cursors(f) == [k \in WithSlider(f.axes) |-> Cursor(f.axes[k])]

\* Every volume of the figure shows the frame at its cursor, which lies in
\* 0..frameCount-1, under the title "<name>\nSlice <cursor+1>/<frameCount>".
CursorsInRange ==
  \A k \in 1..Len(fig.axes) :
    fig.axes[k].kind = "3d_volume"
    => LET a == fig.axes[k]
           frameCount == FrameCountAt(a.idx)
       IN  /\ frameCount >= 1
           /\ a.slider # None
           /\ Cursor(a) \in 0..(frameCount - 1)
           /\ a.frame = Some(Cursor(a))
           /\ a.data = Filtered[a.idx][2].uid
           /\ a.title = PathName(Filtered[a.idx][1]) \o "\nSlice "
                          \o ToString(Cursor(a) + 1) \o "/" \o ToString(frameCount)

\* C15: for every volume shown, after any sequence of slider events the
\* cursor is in 0..frameCount-1, the slice displayed is the frame at the
\* cursor and the title reads "Slice cursor+1/frameCount"; every cursor is 0
\* when the figure is first shown, and a cursor changes only in a
\* slider-change step.
C15_SliceCursorBounded ==
  /\ [](CursorsInRange)
  /\ [][/\ (pc = "idle" /\ fig'.shown)
             => \A k \in WithSlider(fig'.axes) : Cursor(fig'.axes[k]) = 0
        /\ (fig.shown /\ Cursors(fig') # Cursors(fig)) => SliderChanged]_vars

C15_Witness ==
  /\ pc = "showing" /\ Len(fig.axes) = 1
  /\ fig.axes[1].kind = "3d_volume" /\ Cursor(fig.axes[1]) = 2
  /\ fig.axes[1].frame = Some(2)
  /\ fig.axes[1].title = "vol.dcm\nSlice 3/3"

\* C16: a slider event on one volume changes the slider value, the slice
\* displayed and the title of that volume only, to the value of its own
\* slider, a frame of its own array and its own file name; every other
\* image of the figure, and everything else about the figure, stays as it
\* was.
C16_SliderTouchesOwnImageOnly ==
  [][(pc = "showing" /\ pc' = "showing")
       => /\ Len(fig'.axes) = Len(fig.axes)
          /\ \E k \in WithSlider(fig.axes) :
               /\ Cursor(fig'.axes[k]) # Cursor(fig.axes[k])
               /\ \A j \in 1..Len(fig.axes) : j # k => fig'.axes[j] = fig.axes[j]
               /\ fig'.axes[k].frame = Some(Cursor(fig'.axes[k]))
               /\ fig'.axes[k].data = Filtered[fig.axes[k].idx][2].uid
               /\ fig'.axes[k].title =
                    SliceTitle(PathName(Filtered[fig.axes[k].idx][1]),
                               Cursor(fig'.axes[k]), FrameCountAt(fig.axes[k].idx))
               /\ fig'.axes[k].idx = fig.axes[k].idx
               /\ fig'.axes[k].update = fig.axes[k].update
          /\ [fig' EXCEPT !.axes = <<>>] = [fig EXCEPT !.axes = <<>>]]_vars

C16_Witness ==
  /\ pc = "showing" /\ Len(fig.axes) = 3
  /\ fig.axes[1].kind = "3d_volume" /\ Cursor(fig.axes[1]) = 0
  /\ fig.axes[1].title = "cine.dcm\nSlice 1/2"
  /\ fig.axes[2].kind = "2d_gray"
  /\ fig.axes[3].kind = "3d_volume" /\ Cursor(fig.axes[3]) = 2
  /\ fig.axes[3].title = "vol.dcm\nSlice 3/3"

\* C17: for a rank-3 array with SamplesPerPixel absent or at most 1 the
\* classifier answers 3d_volume whether NumberOfFrames is absent, equal to
\* the leading dimension or different from it; it logs the frame-count
\* warning exactly when NumberOfFrames is present and differs; and the
\* slider range and the title of the subplot use the leading dimension of
\* the array, not the declared count.
C17_FrameCountNeverChangesClass ==
  (pc \in {"returned", "rendered"} /\ call = "_get_image_type"
     /\ Len(pixel_array) = 3
     /\ (dcm.SamplesPerPixel = None \/ dcm.SamplesPerPixel[1] <= 1))
  => LET lead == pixel_array[1]
         declared == dcm.NumberOfFrames
         mismatch == declared # None /\ declared[1] # lead
     IN  /\ image_type = "3d_volume"
         /\ mismatch => log = <<"NumberOfFrames (" \o ToString(declared[1])
                                  \o ") doesn't match pixel_array.shape[0] ("
                                  \o ToString(lead) \o ")">>
         /\ ~mismatch => log = <<>>
         /\ pc = "rendered"
              => /\ Len(fig.axes) = 1
                 /\ fig.axes[1].kind = "3d_volume"
                 /\ fig.axes[1].slider = Some([valmin |-> 0, valmax |-> lead - 1, val |-> 0])
                 /\ fig.axes[1].title = "x.dcm\nSlice 1/" \o ToString(lead)

C17_Witness ==
  /\ pc = "rendered" /\ call = "_get_image_type"
  /\ Len(pixel_array) = 3 /\ pixel_array[1] = 3
  /\ dcm.SamplesPerPixel = None /\ dcm.NumberOfFrames = Some(2)
  /\ image_type = "3d_volume" /\ Len(log) = 1
  /\ fig.axes[1].slider[1].valmax = 2

\* C18: cells go by position in the filtered list, without compaction: the
\* i-th file with pixel data is in cell i when it is supported, the cell of
\* an unsupported one stays empty and later images keep their cells; every
\* cell used lies in 1..rows*cols and no two images share a cell.
C18_CellsByPosition ==
  fig.created
  => LET n == Len(Filtered)
         cellsUsed == {fig.axes[k].idx : k \in 1..Len(fig.axes)}
     IN  /\ \A k \in 1..Len(fig.axes) :
              /\ fig.axes[k].idx \in 1..n
              /\ fig.axes[k].idx <= fig.rows * fig.cols
              /\ fig.axes[k].data = Filtered[fig.axes[k].idx][2].uid
         /\ \A i \in 1..n :
              (i \in cellsUsed) <=> (CategoryOf(Filtered[i][1]) # "unsupported")
         /\ Cardinality(cellsUsed) = Len(fig.axes)

C18_Witness ==
  /\ pc = "showing" /\ Len(Filtered) = 3
  /\ CategoryOf(Filtered[2][1]) = "unsupported"
  /\ Len(fig.axes) = 2
  /\ fig.axes[1].idx = 1 /\ fig.axes[2].idx = 3
  /\ fig.axes[2].data = Filtered[3][2].uid

====
